---- MODULE Spec2Model ----
(***************************************************************************)
(* The session-mode speech handler of client/src/lib/speech.ts             *)
(* (class SpeechHandler, lines 10-694): the recognition controller, the    *)
(* conversation-mode coordinator, the audio playback engine with its       *)
(* direct-blob and MediaSource strategies, and the autoplay-policy flag;   *)
(* and the server's routes of server/routes.ts that the client talks to:   *)
(* the message routes and the speech synthesis relay.                      *)
(*                                                                         *)
(* The browser is single threaded: every action below is one task (an      *)
(* event handler, a timer, or the continuation of an await) run to its     *)
(* next await together with the promise reactions it triggers.             *)
(***************************************************************************)
EXTENDS Integers, Sequences, FiniteSets, TLC

\* ---- bounds of the model ----
MaxSpeak  == 2   \* speak() calls in one run of the playback engine
MaxChunks == 3   \* chunks of the response body in a run of one streamed call
SoloCalls == 1   \* speak() calls in a run of the whole handler, or of one stream
FewChunks == 1   \* chunks of a response body where calls or the recogniser interleave
MaxTimers == 1   \* 100 ms restart timers pending at once
MaxStarts == 2   \* startListening() calls suspended in the permission test
MaxFinals == 2   \* final transcripts delivered in a run of the recogniser alone
OneFinal  == 1   \* final transcripts delivered in a run with speak() calls
MaxPosts  == 2   \* POST /api/messages requests in a run of the server

\* ---- program constants ----
ShortTextThreshold == 100   \* speech.ts:283  text.length < 100

Sessions == 1..MaxSpeak
Posts == 1..MaxPosts
TextLengths == {ShortTextThreshold - 1, ShortTextThreshold}

NoUrl == [s |-> 0, k |-> "none"]
BlobUrl(s) == [s |-> s, k |-> "blob"]
MsUrl(s) == [s |-> s, k |-> "ms"]

VARIABLES
  \* fields of SpeechHandler
  isSpeaking, isListening, conversationMode, autoplayBlocked,
  onresult,          \* recognition.onresult: "default" (l.105) or "callback" (l.198)
  \* the platform's recogniser
  recognitionSupported, \* this.recognition !== null
  rec,               \* "inactive" | "starting" | "active" | "stopping"
  restartTimers,     \* pending setTimeout(() => this.startListening(), 100)
  pendingStarts,     \* startListening() calls awaiting testAudioPermissions():
                     \*   [plain |-> n, cb |-> n, timer |-> n], by caller: the
                     \*   handler itself, the mic button, a restart timer
  \* the audio sink (this.audio) and the object URLs
  hasMediaSource,    \* window.MediaSource
  audioSrc,          \* this.audio.src
  audioState,        \* "paused" | "playing" | "ended"
  playEventQueued,   \* the sink's 'play' event waits to be dispatched
  audioOnended,      \* this.audio.onended: the URL whose session installed it
  url,               \* url[u] = [made |-> BOOLEAN, revokes |-> 0..]
  \* the speak() calls
  calls,             \* number of speak() calls issued
  sess,              \* per call: its position, response, promises, outcome
  ms,                \* per call: the closure state of playWithMediaSource
  \* observations of the run
  finals, submissions, manualMic,
  onErrorCalled,     \* the mic button's onError callback was invoked
  \* the size of the run
  callLimit,         \* speak() calls the run may issue
  chunkLimit,        \* chunks a response body is delivered in, at most
  finalLimit,        \* final transcripts the recogniser delivers, at most
  \* the server (routes.ts)
  store,             \* the message store: the entries in the order of their append
  posts,             \* the POST /api/messages requests, by request
  opening,           \* a GET /api/messages found the store empty and awaits the relay
  tts                \* the POST /api/tts request and its response

serverVars == << store, posts, opening, tts >>

vars == << isSpeaking, isListening, conversationMode, autoplayBlocked, onresult,
           recognitionSupported, rec, restartTimers, pendingStarts,
           hasMediaSource, audioSrc, audioState, playEventQueued, audioOnended,
           url, calls, sess, ms, finals, submissions, manualMic, onErrorCalled,
           callLimit, chunkLimit, finalLimit, store, posts, opening, tts >>

flagVars == << isSpeaking, autoplayBlocked >>
recVars == << isListening, conversationMode, onresult, recognitionSupported,
              rec, restartTimers, pendingStarts >>
sinkVars == << hasMediaSource, audioSrc, audioState, playEventQueued,
               audioOnended, url >>
callVars == << calls, sess, ms, callLimit, chunkLimit, finalLimit, serverVars >>
obsVars == << finals, submissions, manualMic, onErrorCalled >>

Urls == {BlobUrl(s) : s \in Sessions} \cup {MsUrl(s) : s \in Sessions}

\* A speak() call that has not been issued yet.
\*   pc        "idle" | "fetch" | "blob" | "play" | "ms" | "settled"
\*   state     the playback session: "none", "requested" (in flight),
\*             "cancelled" (in flight when stopSpeaking() was called),
\*             "playing", "ended" (played to its end), "stopped" (paused by
\*             the stop button), "preempted" (paused by a newer speak()),
\*             "superseded" (its resource was replaced on the sink), "errored"
\*   blocked   a play() of the call was refused with NotAllowedError and
\*             emitAutoplayBlocked() ran (lines 324-327, 575-578)
\*   plays     the pending promises of audio.play(), oldest first:
\*             << origin ("blob" | "ms"), "ok" | "abort" >>
NoSession ==
  [pc |-> "idle", len |-> 0, state |-> "none", bodyUsed |-> FALSE,
   strategy |-> "none", fellBack |-> FALSE, plays |-> << >>,
   outcome |-> "none", fetches |-> 0, blocked |-> FALSE]

\* The closure variables of playWithMediaSource before it runs.
\*   ready     mediaSource.readyState, with "new" for not yet attached
\*   reading   the read loop of lines 489-530 awaits reader.read()
\*   settled   the promise of line 410: "no" | "resolved" | "rejected"
NoMs ==
  [open |-> FALSE, valid |-> FALSE, sb |-> FALSE, pending |-> << >>,
   updating |-> FALSE, complete |-> FALSE, started |-> FALSE,
   ready |-> "new", reading |-> FALSE, read |-> 0, appended |-> << >>,
   settled |-> "no", timer |-> FALSE, firstAppendThrew |-> FALSE]

\* A POST /api/messages request that has not been made.
\*   pc       "idle" | "saved" (the posted message is stored) | "relay" (the
\*            completion is awaited) | "done" | "failed"
\*   listed   what storage.getMessages() returned to the request (line 257)
\*   history  the messages handed to the completion relay, the system
\*            prompt first (lines 260-273)
NoPost ==
  [pc |-> "idle", role |-> "none", listed |-> << >>, history |-> << >>]

\* No JSON answer was sent.
NoAnswer == [ok |-> TRUE, json |-> FALSE, error |-> << >>]

\* No POST /api/tts request.
\*   pc         "idle" | "fetching" (the voice service is awaited) |
\*              "streaming" | "closed"
\*   answer     the JSON answer sent, as the client reads it; NoAnswer if none
\*   status     "none" | "ok" | "error", the status line sent
\*   audio      the Content-Type: audio/mpeg header is set
\*   written    the chunks given to res.write(), in the order of the calls
\*   upRead     chunks read from the voice service
\*   ended      res.end() was called (res.json() ends the response)
\*   lateError  res.status(500).json() was called after res.write()
NoTts ==
  [pc |-> "idle", answer |-> NoAnswer, status |-> "none", audio |-> FALSE,
   written |-> << >>, upRead |-> 0, ended |-> FALSE, lateError |-> FALSE]

\* The handler after its constructor (lines 30-60) and before any call.
Constructed ==
  /\ isSpeaking = FALSE
  /\ isListening = FALSE
  /\ conversationMode = FALSE
  /\ autoplayBlocked = FALSE
  /\ onresult = "default"
  /\ rec = "inactive"
  /\ restartTimers = 0
  /\ pendingStarts = [plain |-> 0, cb |-> 0, timer |-> 0]
  /\ audioSrc = NoUrl
  /\ audioState = "paused"
  /\ playEventQueued = FALSE
  /\ audioOnended = NoUrl
  /\ url = [u \in Urls |-> [made |-> FALSE, revokes |-> 0]]
  /\ calls = 0
  /\ sess = [s \in Sessions |-> NoSession]
  /\ ms = [s \in Sessions |-> NoMs]
  /\ finals = 0
  /\ submissions = 0
  /\ manualMic = FALSE
  /\ onErrorCalled = FALSE
  /\ store = << >>
  /\ posts = [r \in Posts |-> NoPost]
  /\ opening = FALSE
  /\ tts = NoTts

\* The whole handler: one speak() call at a time with the recogniser.
Init ==
  /\ Constructed
  /\ recognitionSupported \in BOOLEAN
  /\ hasMediaSource \in BOOLEAN
  /\ callLimit = SoloCalls
  /\ chunkLimit = FewChunks
  /\ finalLimit = OneFinal

\* The playback engine under overlapping speak() calls, no recogniser.
InitPlayback ==
  /\ Constructed
  /\ recognitionSupported = FALSE
  /\ hasMediaSource \in BOOLEAN
  /\ callLimit = MaxSpeak
  /\ chunkLimit = FewChunks
  /\ finalLimit = OneFinal

\* One streamed call in chunk-level detail, no recogniser.
InitStream ==
  /\ Constructed
  /\ recognitionSupported = FALSE
  /\ hasMediaSource = TRUE
  /\ callLimit = SoloCalls
  /\ chunkLimit = MaxChunks
  /\ finalLimit = OneFinal

\* The recogniser alone: no speak() call is made in the run.
InitCapture ==
  /\ Constructed
  /\ recognitionSupported \in BOOLEAN
  /\ hasMediaSource = TRUE
  /\ callLimit = SoloCalls
  /\ chunkLimit = FewChunks
  /\ finalLimit = MaxFinals

(***************************************************************************)
(* Recognition controller                                                  *)
(***************************************************************************)

NumStarts == pendingStarts.plain + pendingStarts.cb + pendingStarts.timer

\* The callers of startListening(): this.startListening() of lines 138, 164,
\* 341 and 551, the mic button with its callbacks, the timers of 77 and 97.
StartKinds == {"plain", "cb", "timer"}

\* A startListening() without the test of line 171.
StartListeningUnchecked(p, kind, n) == [p EXCEPT ![kind] = @ + n]

\* A startListening() that returns at once: the call leaves nothing pending.
StartListeningDropped(p, kind, n) == p

\* startListening(), lines 170-183: without a recogniser it reports and
\* returns; otherwise it suspends in `await this.testAudioPermissions()`.
StartListeningCalled(p, kind, n) ==
  IF recognitionSupported THEN [p EXCEPT ![kind] = @ + n] ELSE p

\* Room for n more suspended startListening() calls.
RoomForStarts(n) == (~recognitionSupported) \/ NumStarts + n <= MaxStarts

\* A stopListening() without the guard of line 218.
StopListeningUnguarded(r, listening) ==
  IF recognitionSupported THEN "stopping" ELSE r

\* stopListening(), lines 217-226: recognition.stop() only while the
\* listening flag is set; the flag itself is cleared by onend.
StopListeningRec(r, listening) ==
  IF recognitionSupported /\ listening /\ r = "active" THEN "stopping" ELSE r

\* The same operation clearing the speaking flag in its disabling branch.
SetConversationModeStopsSpeech(enabled) ==
  /\ enabled => RoomForStarts(1)
  /\ conversationMode' = enabled
  /\ IF enabled
       THEN /\ pendingStarts' = StartListeningCalled(pendingStarts, "plain", 1)
            /\ rec' = rec
            /\ UNCHANGED << flagVars, sinkVars, callVars >>
       ELSE /\ rec' = StopListeningRec(rec, isListening)
            /\ pendingStarts' = pendingStarts
            /\ isSpeaking' = FALSE
            /\ UNCHANGED << autoplayBlocked, sinkVars, callVars >>
  /\ UNCHANGED << isListening, onresult, recognitionSupported, restartTimers >>
  /\ UNCHANGED obsVars

\* setConversationMode(enabled), lines 159-168
SetConversationMode(enabled) ==
  /\ enabled => RoomForStarts(1)
  /\ conversationMode' = enabled
  /\ IF enabled
       THEN /\ pendingStarts' = StartListeningCalled(pendingStarts, "plain", 1)
            /\ rec' = rec
       ELSE /\ rec' = StopListeningRec(rec, isListening)
            /\ pendingStarts' = pendingStarts
  /\ UNCHANGED << isListening, onresult, recognitionSupported, restartTimers >>
  /\ UNCHANGED << flagVars, sinkVars, callVars, obsVars >>

\* The mic button (home.tsx 147-160): startListening(onResult, onError);
\* without a recogniser onError is called at once (line 173).
ManualStartListening ==
  /\ RoomForStarts(1)
  /\ pendingStarts' = StartListeningCalled(pendingStarts, "cb", 1)
  /\ manualMic' = TRUE
  /\ onErrorCalled' = (onErrorCalled \/ ~recognitionSupported)
  /\ UNCHANGED << isListening, conversationMode, onresult, recognitionSupported,
                  rec, restartTimers, finals, submissions >>
  /\ UNCHANGED << flagVars, sinkVars, callVars >>

\* The mic button (home.tsx 144): stopListening()
ManualStopListening ==
  /\ rec' = StopListeningRec(rec, isListening)
  /\ manualMic' = TRUE
  /\ UNCHANGED << isListening, conversationMode, onresult, recognitionSupported,
                  restartTimers, pendingStarts, finals, submissions,
                  onErrorCalled >>
  /\ UNCHANGED << flagVars, sinkVars, callVars >>

\* The call of line 194 is made on a recogniser that is not inactive: true
\* when the guard of line 192 lets start() through although the recogniser
\* is starting, or stopping after an error.
StartThrows == (~isListening) /\ rec # "inactive"

\* startListening() resumed after the permission test, lines 178-215.
\* recognition.start() throws InvalidStateError unless the recogniser is
\* inactive; the catch of line 211 then skips the onresult assignment.
\* onError is called for a denied permission (line 181), while speaking
\* (line 187) and when start() throws (line 213).
PermissionResolved(kind, granted) ==
  /\ pendingStarts[kind] > 0
  /\ pendingStarts' = [pendingStarts EXCEPT ![kind] = @ - 1]
  /\ onErrorCalled' =
       (onErrorCalled \/ (kind = "cb" /\ ((~granted) \/ isSpeaking \/ StartThrows)))
  /\ IF (~granted) \/ isSpeaking
       THEN UNCHANGED << rec, onresult >>
       ELSE IF isListening
         THEN /\ rec' = rec
              /\ onresult' = IF kind = "cb" THEN "callback" ELSE onresult
         ELSE IF rec = "inactive"
           THEN /\ rec' = "starting"
                /\ onresult' = IF kind = "cb" THEN "callback" ELSE onresult
           ELSE UNCHANGED << rec, onresult >>
  /\ UNCHANGED << isListening, conversationMode, recognitionSupported, restartTimers >>
  /\ UNCHANGED << flagVars, sinkVars, callVars, finals, submissions, manualMic >>

\* recognition.onstart, lines 65-68
RecOnStart ==
  /\ rec = "starting"
  /\ rec' = "active"
  /\ isListening' = TRUE
  /\ UNCHANGED << conversationMode, onresult, recognitionSupported,
                  restartTimers, pendingStarts >>
  /\ UNCHANGED << flagVars, sinkVars, callVars, obsVars >>

\* A restart test that ignores the speaking flag.
RestartInConversationMode == conversationMode

\* The restart test of lines 75 and 96.
RestartWanted == conversationMode /\ ~isSpeaking

\* recognition.onend, lines 70-79: after stop(), after an error, or when the
\* platform ends a continuous run by itself.
RecOnEnd ==
  /\ rec \in {"active", "stopping"}
  /\ RestartWanted => restartTimers < MaxTimers
  /\ rec' = "inactive"
  /\ isListening' = FALSE
  /\ restartTimers' = IF RestartWanted THEN restartTimers + 1 ELSE restartTimers
  /\ UNCHANGED << conversationMode, onresult, recognitionSupported, pendingStarts >>
  /\ UNCHANGED << flagVars, sinkVars, callVars, obsVars >>

ErrorKinds == {"not-allowed", "network", "no-speech", "aborted"}

\* recognition.onerror, lines 81-103; the platform fires end after it.
RecOnError(kind) ==
  /\ rec \in {"starting", "active"}
  /\ (kind = "no-speech" /\ RestartWanted) => restartTimers < MaxTimers
  /\ rec' = "stopping"
  /\ isListening' = FALSE
  /\ restartTimers' = IF kind = "no-speech" /\ RestartWanted
                        THEN restartTimers + 1 ELSE restartTimers
  /\ UNCHANGED << conversationMode, onresult, recognitionSupported, pendingStarts >>
  /\ UNCHANGED << flagVars, sinkVars, callVars, obsVars >>

\* The 100 ms timer of lines 77 and 97 fires: this.startListening()
RestartTimerFires ==
  /\ restartTimers > 0
  /\ RoomForStarts(1)
  /\ restartTimers' = restartTimers - 1
  /\ pendingStarts' = StartListeningCalled(pendingStarts, "timer", 1)
  /\ UNCHANGED << isListening, conversationMode, onresult, recognitionSupported, rec >>
  /\ UNCHANGED << flagVars, sinkVars, callVars, obsVars >>

\* A callback handler without the isFinal test of line 200: every result,
\* interim ones included, is passed to onResult.
RecOnResultEveryResult(isFinal) ==
  /\ rec \in {"active", "stopping"}
  /\ isListening
  /\ isFinal => finals < finalLimit
  /\ finals' = IF isFinal THEN finals + 1 ELSE finals
  /\ submissions' = IF onresult = "callback" THEN submissions + 1 ELSE submissions
  /\ rec' = IF onresult = "callback" /\ ~conversationMode
              THEN StopListeningRec(rec, isListening) ELSE rec
  /\ UNCHANGED << isListening, conversationMode, onresult, recognitionSupported,
                  restartTimers, pendingStarts, manualMic, onErrorCalled >>
  /\ UNCHANGED << flagVars, sinkVars, callVars >>

\* recognition.onresult: the default handler of lines 105-115 only logs; the
\* handler of lines 198-209 calls onResult and, outside conversation mode,
\* stopListening().  Interim results reach neither.
RecOnResult(isFinal) ==
  /\ rec \in {"active", "stopping"}
  /\ isListening
  /\ isFinal => finals < finalLimit
  /\ finals' = IF isFinal THEN finals + 1 ELSE finals
  /\ submissions' = IF isFinal /\ onresult = "callback"
                      THEN submissions + 1 ELSE submissions
  /\ rec' = IF isFinal /\ onresult = "callback" /\ ~conversationMode
              THEN StopListeningRec(rec, isListening) ELSE rec
  /\ UNCHANGED << isListening, conversationMode, onresult, recognitionSupported,
                  restartTimers, pendingStarts, manualMic, onErrorCalled >>
  /\ UNCHANGED << flagVars, sinkVars, callVars >>

(***************************************************************************)
(* Audio playback engine: the effects of the code on the handler's flags,  *)
(* the sink, the object URLs and the speak() calls, as functions of a      *)
(* record M of those values, so that a handler is their composition.       *)
(***************************************************************************)

Cur ==
  [sp |-> isSpeaking, ab |-> autoplayBlocked, sess |-> sess, ms |-> ms,
   url |-> url, src |-> audioSrc, ast |-> audioState,
   pq |-> playEventQueued, oe |-> audioOnended]

Commit(M) ==
  /\ isSpeaking' = M.sp
  /\ autoplayBlocked' = M.ab
  /\ sess' = M.sess
  /\ ms' = M.ms
  /\ url' = M.url
  /\ audioSrc' = M.src
  /\ audioState' = M.ast
  /\ playEventQueued' = M.pq
  /\ audioOnended' = M.oe

\* URL.createObjectURL / URL.revokeObjectURL (lines 307, 367, 337, 424)
CreateObjectURL(M, u) == [M EXCEPT !.url[u].made = TRUE]
RevokeObjectURL(M, u) ==
  [M EXCEPT !.url[u].revokes = IF @ < 2 THEN @ + 1 ELSE @]

\* cleanup(), lines 419-431.  endOfStream() throws while the source buffer
\* is updating; the catch of line 428 then skips the revoke and the resets.
Cleanup(M, s) ==
  LET m == M.ms[s] IN
  IF m.open /\ m.ready = "open" /\ m.updating
    THEN M
    ELSE [RevokeObjectURL(M, MsUrl(s)) EXCEPT
            !.ms[s].ready = IF m.open /\ m.ready = "open" THEN "ended" ELSE @,
            !.ms[s].open = FALSE,
            !.ms[s].valid = FALSE,
            !.ms[s].pending = << >>]

\* A catch that rethrows without clearing the speaking flag.
SpeakRejectsKeepsFlag(M, s, error) ==
  [M EXCEPT !.sess[s].pc = "settled",
            !.sess[s].outcome = error,
            !.sess[s].state = IF @ \in {"requested", "cancelled"}
                                THEN "errored" ELSE @]

\* speak() rejects: the catch of lines 294-298.
SpeakRejects(M, s, error) ==
  [M EXCEPT !.sp = FALSE,
            !.sess[s].pc = "settled",
            !.sess[s].outcome = error,
            !.sess[s].state = IF @ \in {"requested", "cancelled"}
                                THEN "errored" ELSE @]

\* A fallback that sends the request again instead of reusing the response.
FallbackRefetches(M, s) ==
  [M EXCEPT !.sess[s].pc = "fetch",
            !.sess[s].fellBack = TRUE,
            !.sess[s].fetches = @ + 1]

\* The catch of lines 289-293: playWithDirectBlob(response) on the response
\* the failed strategy was given.  response.blob() rejects with a TypeError
\* when the body was already read or is locked by a reader (line 306), which
\* the catch of line 347 and then the catch of line 294 handle.
Fallback(M, s) ==
  IF M.sess[s].bodyUsed
    THEN SpeakRejects([M EXCEPT !.sess[s].fellBack = TRUE], s, "TypeError")
    ELSE [M EXCEPT !.sess[s].pc = "blob",
                   !.sess[s].strategy = "blob",
                   !.sess[s].fellBack = TRUE,
                   !.sess[s].bodyUsed = TRUE]

\* playWithDirectBlob fails (lines 323-329, 347-351): the flag is cleared and
\* the error rethrown, into the catch of line 289 when this was the call of
\* line 284, into the catch of line 294 when it was the call of line 292.
BlobRejected(M, s, error) ==
  LET M1 == [M EXCEPT !.sp = FALSE,
                      !.ab = IF error = "NotAllowedError" THEN TRUE ELSE @,
                      !.sess[s].blocked =
                          IF error = "NotAllowedError" THEN TRUE ELSE @]
  IN IF M.sess[s].fellBack THEN SpeakRejects(M1, s, error) ELSE Fallback(M1, s)

\* handleError(), lines 412-416: cleanup, then reject the promise of line 410;
\* a rejection that settles it resumes speak() in the catch of line 289.
HandleError(M, s) ==
  LET M1 == Cleanup(M, s) IN
  IF M1.ms[s].settled = "no"
    THEN LET M2 == [M1 EXCEPT !.ms[s].settled = "rejected"] IN
         IF M2.sess[s].pc = "ms" THEN Fallback(M2, s) ELSE M2
    ELSE M1

\* startPlayback() fails, lines 573-580, into the catch of line 460.
MsPlayRejected(M, s, error) ==
  HandleError([M EXCEPT !.ab = IF error = "NotAllowedError" THEN TRUE ELSE @,
                        !.sess[s].blocked =
                            IF error = "NotAllowedError" THEN TRUE ELSE @], s)

PlayRejected(M, s, origin, error) ==
  IF origin = "blob" THEN BlobRejected(M, s, error) ELSE MsPlayRejected(M, s, error)

\* Every pending play() promise of session s is rejected, oldest first.
RECURSIVE RejectPlays(_, _, _)
RejectPlays(M, s, error) ==
  IF M.sess[s].plays = << >>
    THEN M
    ELSE LET p == Head(M.sess[s].plays)
             M1 == [M EXCEPT !.sess[s].plays = Tail(@)]
         IN RejectPlays(PlayRejected(M1, s, p[1], error), s, error)

RECURSIVE RejectAllPlays(_, _, _)
RejectAllPlays(M, n, error) ==
  IF n = 0 THEN M ELSE RejectAllPlays(RejectPlays(M, n, error), n - 1, error)

\* The same assignment on a fresh element per call (new Audio(u)): nothing
\* that plays on the old element is touched.
AssignSrcFreshElement(M, u) ==
  [M EXCEPT !.src = u, !.ast = "paused", !.pq = FALSE]

\* this.audio.src = u (lines 314, 376).  The element's load algorithm drops
\* the resource it had: it pauses, removes the queued 'play' event, rejects
\* the pending play() promises with AbortError and detaches a MediaSource
\* (sourceclose, lines 536-540); the session that was audible is superseded.
AssignSrc(M, u) ==
  LET old == M.src
      M1 == [M EXCEPT
               !.src = u,
               !.ast = "paused",
               !.pq = FALSE,
               !.sess = [t \in Sessions |->
                          [@[t] EXCEPT !.state =
                             IF @ = "playing" THEN "superseded" ELSE @]]]
      M2 == IF old.k = "ms"
              THEN [M1 EXCEPT !.ms[old.s].ready = "closed",
                              !.ms[old.s].open = FALSE,
                              !.ms[old.s].valid = FALSE]
              ELSE M1
  IN RejectAllPlays(M2, MaxSpeak, "AbortError")

\* audio.play() (lines 320, 569).  Refused by the autoplay policy it rejects
\* at once with NotAllowedError; otherwise the element leaves the paused
\* state, a 'play' event is queued and the promise waits for playback.
CallPlay(M, s, origin, allowed) ==
  IF allowed
    THEN [M EXCEPT !.ast = "playing",
                   !.pq = IF M.ast = "paused" THEN TRUE ELSE @,
                   !.sess[s].plays = Append(@, << origin, "ok" >>)]
    ELSE PlayRejected(M, s, origin, "NotAllowedError")

\* audio.pause() (line 586): a playing element pauses and the pending play()
\* promises are rejected with AbortError by a queued task.
Pause(M, how) ==
  IF M.ast = "paused"
    THEN M
    ELSE [M EXCEPT
            !.ast = "paused",
            !.sess = [t \in Sessions |->
                       [@[t] EXCEPT
                          !.state = IF @ = "playing" THEN how ELSE @,
                          !.plays = [i \in DOMAIN @ |-> << @[i][1], "abort" >>]]]]

\* A call of stopSpeaking() finds these sessions in flight.
MarkCancelled(M) ==
  [M EXCEPT !.sess = [t \in Sessions |->
                       [@[t] EXCEPT !.state =
                          IF @ = "requested" THEN "cancelled" ELSE @]]]

\* A stopSpeaking() that also clears the autoplay-blocked flag.
StopSpeakingClearsBlock(M, how) ==
  [Pause(MarkCancelled(M), how) EXCEPT !.sp = FALSE, !.ab = FALSE]

\* stopSpeaking(), lines 583-590
StopSpeakingEffect(M, how) ==
  IF M.sp THEN [Pause(MarkCancelled(M), how) EXCEPT !.sp = FALSE]
          ELSE MarkCancelled(M)

(***************************************************************************)
(* speak(), playWithDirectBlob()                                           *)
(***************************************************************************)

\* speak(text, voiceId) up to the fetch of line 252: lines 233-261.
Speak(len) ==
  /\ calls < callLimit
  /\ LET s == calls + 1
         M1 == IF isSpeaking THEN StopSpeakingEffect(Cur, "preempted") ELSE Cur
         M2 == [M1 EXCEPT !.sp = TRUE,
                          !.sess[s] = [NoSession EXCEPT
                                         !.pc = "fetch", !.len = len,
                                         !.state = "requested", !.fetches = 1]]
     IN /\ Commit(M2)
        /\ calls' = s
  /\ rec' = StopListeningRec(rec, isListening)
  /\ UNCHANGED << isListening, conversationMode, onresult, recognitionSupported,
                  restartTimers, pendingStarts, hasMediaSource, obsVars,
                  callLimit, chunkLimit, finalLimit, serverVars >>

\* The stop button (home.tsx 165-174): stopSpeaking()
StopSpeaking ==
  /\ Commit(StopSpeakingEffect(Cur, "stopped"))
  /\ UNCHANGED << recVars, hasMediaSource, calls, obsVars, callLimit, chunkLimit, finalLimit, serverVars >>

\* A strategy choice that counts a text of exactly the threshold as short.
UseDirectBlobInclusive(len) == len <= ShortTextThreshold \/ ~hasMediaSource

\* The strategy choice of line 283.
UseDirectBlob(len) == len < ShortTextThreshold \/ ~hasMediaSource

\* playWithMediaSource() up to its promise, lines 355-376 and 542-562: the
\* object URL, the sink's src, audio.onended and the 5 s timer.
StartMediaSource(M, s) ==
  LET M1 == AssignSrc(CreateObjectURL(M, MsUrl(s)), MsUrl(s)) IN
  [M1 EXCEPT !.oe = MsUrl(s),
             !.ms[s] = [NoMs EXCEPT !.timer = TRUE],
             !.sess[s].pc = "ms",
             !.sess[s].strategy = "ms"]

\* The marker of line 268, as the relay sends it (routes.ts 181).
QuotaMarker == "quota_exceeded"

\* The error text of an answer contains the marker: String.includes, on the
\* text as the sequence of its parts.
Includes(text, marker) == \E i \in DOMAIN text : text[i] = marker

\* What the voice service answers to the relay: audio, an error whose JSON
\* body has detail.status = "quota_exceeded", an error that names the marker
\* elsewhere in its text, any other error; or the relay cannot reach it.
Upstream == {"audio", "quota_status", "quota_text", "failed", "unreachable"}

\* The relay, routes.ts 122-248: the answer of POST /api/tts.  `json` says
\* that the body decodes as JSON, `error` is its error field.
RelayAnswer(up) ==
  CASE up = "audio" -> [ok |-> TRUE, json |-> FALSE, error |-> << >>]
    [] up = "quota_status" ->
         [ok |-> FALSE, json |-> TRUE, error |-> << QuotaMarker >>]
    [] up = "quota_text" ->
         [ok |-> FALSE, json |-> TRUE,
          error |-> << "Voice synthesis failed:", QuotaMarker >>]
    [] up = "failed" ->
         [ok |-> FALSE, json |-> TRUE, error |-> << "Voice synthesis failed:" >>]
    [] OTHER ->
         [ok |-> FALSE, json |-> TRUE, error |-> << "Failed to generate speech" >>]

\* A non-success answer without a decodable body (a gateway's error page),
\* and the relay's 400 answer, which has a message and no error field
\* (routes.ts 128-130).
Undecodable == [ok |-> FALSE, json |-> FALSE, error |-> << >>]
NoErrorField == [ok |-> FALSE, json |-> TRUE, error |-> << >>]

Answers == {RelayAnswer(up) : up \in Upstream} \cup {Undecodable, NoErrorField}

\* A classification that does not look for the marker.
ResponseClassGeneric(a) == IF a.ok THEN "ok" ELSE "error"

\* Lines 266-273: response.ok, else the error field of the decoded body (an
\* empty object when it does not decode) is searched for the marker.
ResponseClass(a) ==
  IF a.ok THEN "ok"
  ELSE IF a.json /\ Includes(a.error, QuotaMarker) THEN "quota" ELSE "error"

\* The response of fetch('/api/tts') arrives (lines 263-293), or the fetch
\* fails.  A non-success status rejects by its error body (lines 266-273).
FetchResolved(s, result) ==
  /\ sess[s].pc = "fetch"
  /\ LET M == Cur IN
     Commit(CASE result = "ok" ->
                   IF UseDirectBlob(sess[s].len)
                     THEN [M EXCEPT !.sess[s].pc = "blob",
                                    !.sess[s].strategy = "blob",
                                    !.sess[s].bodyUsed = TRUE]
                     ELSE StartMediaSource(M, s)
              [] result = "quota" -> SpeakRejects(M, s, "QuotaExceeded")
              [] result = "error" -> SpeakRejects(M, s, "SynthesisUnavailable")
              [] OTHER -> SpeakRejects(M, s, "NetworkError"))
  /\ UNCHANGED << recVars, hasMediaSource, calls, obsVars, callLimit, chunkLimit, finalLimit, serverVars >>

\* What a fetch can come to: the class of an answer, or a network failure.
FetchResults == {ResponseClass(a) : a \in Answers} \cup {"network"}

\* response.blob() resolves, lines 306-320: the object URL, the sink's src,
\* and play().
BlobResolved(s, allowed) ==
  /\ sess[s].pc = "blob"
  /\ LET M1 == AssignSrc(CreateObjectURL(Cur, BlobUrl(s)), BlobUrl(s))
         M2 == [M1 EXCEPT !.sess[s].pc = "play"]
     IN Commit(CallPlay(M2, s, "blob", allowed))
  /\ UNCHANGED << recVars, hasMediaSource, calls, obsVars, callLimit, chunkLimit, finalLimit, serverVars >>

\* response.blob() rejects (the body fails in transit): line 347.
BlobFailed(s) ==
  /\ sess[s].pc = "blob"
  /\ Commit(BlobRejected(Cur, s, "NetworkError"))
  /\ UNCHANGED << recVars, hasMediaSource, calls, obsVars, callLimit, chunkLimit, finalLimit, serverVars >>

\* The oldest pending play() promise of session s settles, by a task queued
\* after the 'play' event.  Resolved: lines 321-346 for the blob strategy (audio.onended is
\* installed, speak() resolves), lines 457-459 and 570-572 for startPlayback.
PlaySettles(s) ==
  /\ sess[s].plays # << >>
  /\ LET p == Head(sess[s].plays)
         M == [Cur EXCEPT !.sess[s].plays = Tail(@)]
     IN /\ ~playEventQueued
        /\ Commit(
             CASE p[2] = "abort" -> PlayRejected(M, s, p[1], "AbortError")
               [] p[2] = "ok" /\ p[1] = "blob" ->
                    [M EXCEPT !.ab = FALSE,
                              !.oe = BlobUrl(s),
                              !.sess[s].pc = "settled",
                              !.sess[s].outcome = "resolved"]
               [] OTHER ->
                    LET M1 == [M EXCEPT !.ab = FALSE, !.ms[s].started = TRUE] IN
                    IF M1.ms[s].settled = "no"
                      THEN [M1 EXCEPT
                              !.ms[s].settled = "resolved",
                              !.sess[s].pc = IF @ = "ms" THEN "settled" ELSE @,
                              !.sess[s].outcome = IF M1.sess[s].pc = "ms"
                                                    THEN "resolved" ELSE @]
                      ELSE M1)
  /\ UNCHANGED << recVars, hasMediaSource, calls, obsVars, callLimit, chunkLimit, finalLimit, serverVars >>

(***************************************************************************)
(* The sink's events (setupAudioHandlers, lines 118-146, and audio.onended) *)
(***************************************************************************)

\* 'play', lines 122-130
AudioPlayEvent ==
  /\ playEventQueued
  /\ LET M == Cur IN
     Commit([M EXCEPT
               !.pq = FALSE,
               !.sp = TRUE,
               !.sess = [t \in Sessions |->
                          [@[t] EXCEPT !.state =
                             IF M.ast = "playing" /\ M.src.s = t
                               THEN "playing" ELSE @]]])
  /\ rec' = StopListeningRec(rec, isListening)
  /\ UNCHANGED << isListening, conversationMode, onresult, recognitionSupported,
                  restartTimers, pendingStarts, hasMediaSource, calls, obsVars,
                  callLimit, chunkLimit, finalLimit, serverVars >>

\* audio.onended as installed by line 333 (blob) or line 544 (MediaSource)
OnendedHandler(M) ==
  CASE M.oe.k = "blob" -> [RevokeObjectURL(M, M.oe) EXCEPT !.sp = FALSE]
    [] M.oe.k = "ms" -> [Cleanup(M, M.oe.s) EXCEPT !.sp = FALSE]
    [] OTHER -> M

\* 'ended': the listener of lines 132-140, then audio.onended.  Each of them
\* calls startListening() in conversation mode.  A MediaSource resource ends
\* only once endOfStream() was called on it.
AudioEnded ==
  /\ audioState = "playing"
  /\ ~playEventQueued
  /\ audioSrc # NoUrl
  /\ sess[audioSrc.s].plays = << >>
  /\ audioSrc.k = "ms" => /\ ms[audioSrc.s].ready = "ended"
                          /\ ms[audioSrc.s].appended # << >>
  /\ LET n == IF audioOnended = NoUrl THEN 1 ELSE 2
         M == [Cur EXCEPT !.ast = "ended",
                          !.sp = FALSE,
                          !.sess[audioSrc.s].state = "ended"]
     IN /\ conversationMode => RoomForStarts(n)
        /\ Commit(OnendedHandler(M))
        /\ pendingStarts' = IF conversationMode
                              THEN StartListeningCalled(pendingStarts, "plain", n)
                              ELSE pendingStarts
  /\ UNCHANGED << isListening, conversationMode, onresult, recognitionSupported,
                  rec, restartTimers, hasMediaSource, calls, obsVars,
                  callLimit, chunkLimit, finalLimit, serverVars >>

\* 'error', lines 142-145: the resource cannot be loaded or decoded; the
\* pending play() promises are rejected.
AudioError ==
  /\ audioSrc # NoUrl
  /\ audioState # "ended"
  /\ sess[audioSrc.s].state \in {"requested", "cancelled", "playing"}
  /\ LET M == [Cur EXCEPT !.ast = "paused",
                          !.pq = FALSE,
                          !.sp = FALSE,
                          !.sess[audioSrc.s].state = "errored"]
     IN Commit(RejectAllPlays(M, MaxSpeak, "NotSupportedError"))
  /\ UNCHANGED << recVars, hasMediaSource, calls, obsVars, callLimit, chunkLimit, finalLimit, serverVars >>

\* The value ensureAudioPermission() resolves to, lines 594-607.
EnsureAudioPermissionResult(blocked, unlocked) == (~blocked) \/ unlocked

\* An ensureAudioPermission() that clears the flag whatever the silent
\* audio's play() came to.
EnsureAudioPermissionAlwaysClears(unlocked) ==
  /\ autoplayBlocked' = FALSE
  /\ UNCHANGED << isSpeaking, recVars, sinkVars, callVars, obsVars >>

\* ensureAudioPermission(), lines 593-608, with the outcome of the silent
\* audio's play() on its own element.
EnsureAudioPermission(unlocked) ==
  /\ autoplayBlocked' = IF autoplayBlocked /\ unlocked THEN FALSE ELSE autoplayBlocked
  /\ UNCHANGED << isSpeaking, recVars, sinkVars, callVars, obsVars >>

(***************************************************************************)
(* playWithMediaSource(), lines 355-564                                    *)
(***************************************************************************)

\* A processNextChunk() that takes the newest pending chunk (pop for shift).
ProcessNewestChunk(m, throws) ==
  IF (~m.sb) \/ (~m.valid) \/ (~m.open) \/ m.pending = << >> \/ m.updating
    THEN m
    ELSE [m EXCEPT !.pending = SubSeq(@, 1, Len(@) - 1),
                   !.valid = ~throws,
                   !.updating = ~throws,
                   !.appended = IF throws THEN @
                                ELSE Append(@, m.pending[Len(m.pending)])]

\* A processNextChunk() without the test of line 393: it appends although
\* the previous append has not finished.
ProcessNextChunkUnguarded(m, throws) ==
  IF (~m.sb) \/ (~m.valid) \/ (~m.open) \/ m.pending = << >>
    THEN m
    ELSE [m EXCEPT !.pending = Tail(@),
                   !.valid = ~throws,
                   !.updating = ~throws,
                   !.appended = IF throws THEN @ ELSE Append(@, Head(m.pending))]

\* processNextChunk(), lines 387-408: one appendBuffer of the oldest pending
\* chunk unless the buffer is updating.  A throwing appendBuffer invalidates
\* the buffer; the chunk was already shifted off the queue.  The rethrow of
\* line 405 rejects the promise of an async call nobody awaits.
ProcessNextChunk(m, throws) ==
  IF (~m.sb) \/ (~m.valid) \/ (~m.open) \/ m.pending = << >> \/ m.updating
    THEN m
    ELSE IF throws
      THEN [m EXCEPT !.pending = Tail(@),
                     !.valid = FALSE,
                     !.firstAppendThrew = IF m.appended = << >> THEN TRUE ELSE @]
      ELSE [m EXCEPT !.pending = Tail(@),
                     !.updating = TRUE,
                     !.ready = "open",
                     !.appended = Append(@, Head(m.pending))]

\* The endOfStream() test of lines 466-468 and 497-499.
CanEndStream(m) ==
  m.complete /\ m.pending = << >> /\ m.sb /\ (~m.updating) /\ m.open /\ m.ready = "open"

EndStreamIfDone(m) == IF CanEndStream(m) THEN [m EXCEPT !.ready = "ended"] ELSE m

\* 'sourceopen', lines 433-487: the element attached the MediaSource.  The
\* source buffer is added (addSourceBuffer may throw for the MIME type) and
\* the reader taken (getReader() throws on a body that is already being
\* read); the loop then awaits its first read.
MsSourceOpen(s, addOk) ==
  /\ ms[s].ready = "new"
  /\ audioSrc = MsUrl(s)
  /\ LET M1 == [Cur EXCEPT !.ms[s].open = TRUE, !.ms[s].ready = "open"] IN
     Commit(IF ~addOk
              THEN HandleError(M1, s)
              ELSE LET M2 == [M1 EXCEPT !.ms[s].sb = TRUE, !.ms[s].valid = TRUE] IN
                   IF M2.sess[s].bodyUsed
                     THEN HandleError(M2, s)
                     ELSE [M2 EXCEPT !.sess[s].bodyUsed = TRUE,
                                     !.ms[s].reading = TRUE])
  /\ UNCHANGED << recVars, hasMediaSource, calls, obsVars, callLimit, chunkLimit, finalLimit, serverVars >>

\* A timer that fires without looking at the MediaSource.
MsTimeoutIgnored(s) ==
  /\ ms[s].timer
  /\ Commit([Cur EXCEPT !.ms[s].timer = FALSE])
  /\ UNCHANGED << recVars, hasMediaSource, calls, obsVars, callLimit, chunkLimit, finalLimit, serverVars >>

\* The timer of lines 558-562 fires.
MsTimeout(s) ==
  /\ ms[s].timer
  /\ LET M1 == [Cur EXCEPT !.ms[s].timer = FALSE] IN
     Commit(IF ~M1.ms[s].open THEN HandleError(M1, s) ELSE M1)
  /\ UNCHANGED << recVars, hasMediaSource, calls, obsVars, callLimit, chunkLimit, finalLimit, serverVars >>

\* reader.read() delivers the next chunk, lines 491 and 507-525.
MsReadChunk(s, throws) ==
  /\ ms[s].reading
  /\ ms[s].read < chunkLimit
  /\ LET c == ms[s].read + 1
         m1 == [ms[s] EXCEPT !.read = c]
         m2 == IF m1.valid /\ m1.open
                 THEN ProcessNextChunk([m1 EXCEPT !.pending = Append(@, c)], throws)
                 ELSE m1
     IN Commit([Cur EXCEPT !.ms[s] = m2])
  /\ UNCHANGED << recVars, hasMediaSource, calls, obsVars, callLimit, chunkLimit, finalLimit, serverVars >>

\* reader.read() reports the end of the body, lines 493-505.
MsReadDone(s) ==
  /\ ms[s].reading
  /\ Commit([Cur EXCEPT !.ms[s] =
               EndStreamIfDone([@ EXCEPT !.complete = TRUE, !.reading = FALSE])])
  /\ UNCHANGED << recVars, hasMediaSource, calls, obsVars, callLimit, chunkLimit, finalLimit, serverVars >>

\* reader.read() rejects, lines 526-529.
MsReadError(s) ==
  /\ ms[s].reading
  /\ Commit(HandleError([Cur EXCEPT !.ms[s].reading = FALSE], s))
  /\ UNCHANGED << recVars, hasMediaSource, calls, obsVars, callLimit, chunkLimit, finalLimit, serverVars >>

\* 'updateend', lines 451-476: the next append, then play() through
\* startPlayback() unless playbackStarted (set only when a play() promise
\* resolves) or the buffer is updating again, then the endOfStream() test.
\* A detached source buffer still ends its aborted append with updateend.
MsUpdateEnd(s, throws, allowed) ==
  /\ ms[s].updating
  /\ LET m1 == ProcessNextChunk([ms[s] EXCEPT !.updating = FALSE], throws)
         M1 == [Cur EXCEPT !.ms[s] = m1]
         M2 == IF (~m1.started) /\ (~m1.updating)
                 THEN CallPlay(M1, s, "ms", allowed)
                 ELSE M1
     IN Commit([M2 EXCEPT !.ms[s] = EndStreamIfDone(@)])
  /\ UNCHANGED << recVars, hasMediaSource, calls, obsVars, callLimit, chunkLimit, finalLimit, serverVars >>

(***************************************************************************)
(* The server: routes.ts.  The handlers are async functions; each action   *)
(* is one of them from an await to the next.                               *)
(***************************************************************************)

handlerVars == << flagVars, recVars, sinkVars, calls, sess, ms,
                  callLimit, chunkLimit, finalLimit, obsVars >>

\* The entries of a conversation: the system prompt (lines 8 and 261-264),
\* the message posted by request r, the relay's reply to it, and the
\* assistant's opening message (lines 104-107).
SystemEntry == [role |-> "system", content |-> 0]
PostedEntry(r, role) == [role |-> role, content |-> r]
ReplyEntry(r) == [role |-> "assistant", content |-> MaxPosts + r]
OpeningEntry == [role |-> "assistant", content |-> 0]

\* The message store: an append-only ordered log with list, append, clear.
CreateMessage(log, entry) == Append(log, entry)
GetMessages(log) == log
ClearMessages(log) == << >>

\* The messages of lines 258-273: the system prompt, every listed message,
\* then the posted message.
History(listed, entry) == << SystemEntry >> \o listed \o << entry >>

\* POST /api/messages up to the await of line 253: the body is parsed
\* (a ZodError answers 400, lines 287-288) and the message stored.
PostMessage(r, role, valid) ==
  /\ posts[r].pc = "idle"
  /\ IF valid
       THEN /\ store' = CreateMessage(store, PostedEntry(r, role))
            /\ posts' = [posts EXCEPT ![r].pc = "saved", ![r].role = role]
       ELSE /\ store' = store
            /\ posts' = [posts EXCEPT ![r].pc = "failed"]
  /\ UNCHANGED << opening, tts, handlerVars >>

\* Lines 256-274: for a user message the store is listed and the history
\* handed to the completion relay; any other message is answered at once
\* (line 283).
PostHistory(r) ==
  /\ posts[r].pc = "saved"
  /\ posts' = IF posts[r].role = "user"
                THEN [posts EXCEPT
                        ![r].pc = "relay",
                        ![r].listed = GetMessages(store),
                        ![r].history = History(GetMessages(store),
                                               PostedEntry(r, "user"))]
                ELSE [posts EXCEPT ![r].pc = "done"]
  /\ UNCHANGED << store, opening, tts, handlerVars >>

\* Lines 276-282: the relay's reply is stored and both messages returned;
\* a failing relay answers 500 (lines 289-291).
PostReply(r, ok) ==
  /\ posts[r].pc = "relay"
  /\ IF ok
       THEN /\ store' = CreateMessage(store, ReplyEntry(r))
            /\ posts' = [posts EXCEPT ![r].pc = "done"]
       ELSE /\ store' = store
            /\ posts' = [posts EXCEPT ![r].pc = "failed"]
  /\ UNCHANGED << opening, tts, handlerVars >>

\* GET /api/messages on an empty store, lines 85-102: the relay is asked
\* for the opening message.
GetMessagesEmpty ==
  /\ store = << >>
  /\ ~opening
  /\ opening' = TRUE
  /\ UNCHANGED << store, posts, tts, handlerVars >>

\* Lines 104-110: the opening message is stored.
OpeningReply ==
  /\ opening
  /\ opening' = FALSE
  /\ store' = CreateMessage(store, OpeningEntry)
  /\ UNCHANGED << posts, tts, handlerVars >>

\* DELETE /api/messages, lines 297-300
DeleteMessages ==
  /\ store # << >>
  /\ store' = ClearMessages(store)
  /\ UNCHANGED << posts, opening, tts, handlerVars >>

\* The catch of lines 241-247: res.status(500).json(...).  Once res.write()
\* has sent the headers, json() throws ERR_HTTP_HEADERS_SENT out of the
\* handler and the response is not ended.
TtsCatch(x) ==
  IF x.written = << >>
    THEN [x EXCEPT !.pc = "closed", !.answer = RelayAnswer("unreachable"),
                   !.status = "error", !.audio = FALSE, !.ended = TRUE]
    ELSE [x EXCEPT !.pc = "closed", !.lateError = TRUE]

\* POST /api/tts, lines 123-130: without a text the answer is 400.
TtsRequest(hasText) ==
  /\ tts.pc = "idle"
  /\ tts' = IF hasText
              THEN [tts EXCEPT !.pc = "fetching"]
              ELSE [tts EXCEPT !.pc = "closed", !.answer = NoErrorField,
                               !.status = "error", !.ended = TRUE]
  /\ UNCHANGED << store, posts, opening, handlerVars >>

\* The voice service answers, lines 144-195: an error is answered as JSON,
\* for audio the streaming headers are set; an unreachable service throws
\* into the catch.
TtsUpstreamAnswers(up) ==
  /\ tts.pc = "fetching"
  /\ tts' = CASE up = "audio" -> [tts EXCEPT !.pc = "streaming", !.audio = TRUE]
              [] up = "unreachable" -> TtsCatch(tts)
              [] OTHER -> [tts EXCEPT !.pc = "closed", !.answer = RelayAnswer(up),
                                      !.status = "error", !.ended = TRUE]
  /\ UNCHANGED << store, posts, opening, handlerVars >>

\* reader.read() delivers a chunk, lines 208-233: res.write()
TtsReadChunk ==
  /\ tts.pc = "streaming"
  /\ tts.upRead < chunkLimit
  /\ tts' = [tts EXCEPT !.upRead = @ + 1,
                        !.written = Append(@, tts.upRead + 1),
                        !.status = "ok"]
  /\ UNCHANGED << store, posts, opening, handlerVars >>

\* reader.read() reports the end, lines 210 and 237: res.end()
TtsReadDone ==
  /\ tts.pc = "streaming"
  /\ tts' = [tts EXCEPT !.pc = "closed", !.status = "ok", !.ended = TRUE]
  /\ UNCHANGED << store, posts, opening, handlerVars >>

\* reader.read() rejects (the connection to the voice service breaks):
\* the catch of line 241.
TtsReadFails ==
  /\ tts.pc = "streaming"
  /\ tts' = TtsCatch(tts)
  /\ UNCHANGED << store, posts, opening, handlerVars >>

(***************************************************************************)
(* Specification                                                           *)
(***************************************************************************)

\* The operations and events of the recognition controller and the
\* conversation-mode coordinator.
RecognitionNext ==
  \/ \E enabled \in BOOLEAN : SetConversationMode(enabled)
  \/ ManualStartListening
  \/ ManualStopListening
  \/ \E kind \in StartKinds, granted \in BOOLEAN : PermissionResolved(kind, granted)
  \/ RecOnStart
  \/ RecOnEnd
  \/ \E kind \in ErrorKinds : RecOnError(kind)
  \/ RestartTimerFires
  \/ \E isFinal \in BOOLEAN : RecOnResult(isFinal)

\* The operations and events of the playback engine and the autoplay flag.
PlaybackNext ==
  \/ \E len \in TextLengths : Speak(len)
  \/ StopSpeaking
  \/ \E s \in Sessions, result \in FetchResults : FetchResolved(s, result)
  \/ \E s \in Sessions, allowed \in BOOLEAN : BlobResolved(s, allowed)
  \/ \E s \in Sessions : BlobFailed(s)
  \/ \E s \in Sessions : PlaySettles(s)
  \/ AudioPlayEvent
  \/ AudioEnded
  \/ AudioError
  \/ \E unlocked \in BOOLEAN : EnsureAudioPermission(unlocked)

\* The events of the MediaSource strategy.
StreamNext ==
  \/ \E s \in Sessions, addOk \in BOOLEAN : MsSourceOpen(s, addOk)
  \/ \E s \in Sessions : MsTimeout(s)
  \/ \E s \in Sessions, throws \in BOOLEAN : MsReadChunk(s, throws)
  \/ \E s \in Sessions : MsReadDone(s)
  \/ \E s \in Sessions : MsReadError(s)
  \/ \E s \in Sessions, throws \in BOOLEAN, allowed \in BOOLEAN : MsUpdateEnd(s, throws, allowed)

Next == RecognitionNext \/ PlaybackNext \/ StreamNext

Spec == Init /\ [][Next]_vars

\* The playback engine alone under overlapping calls.
NextPlayback == PlaybackNext \/ StreamNext
SpecPlayback == InitPlayback /\ [][NextPlayback]_vars

\* One streamed call.
SpecStream == InitStream /\ [][NextPlayback]_vars

\* The recognition controller without the playback engine.
SpecCapture == InitCapture /\ [][RecognitionNext]_vars

\* The requests to the message routes and to the synthesis relay.
ServerNext ==
  \/ \E r \in Posts, role \in {"user", "assistant"}, valid \in BOOLEAN :
       PostMessage(r, role, valid)
  \/ \E r \in Posts : PostHistory(r)
  \/ \E r \in Posts, ok \in BOOLEAN : PostReply(r, ok)
  \/ GetMessagesEmpty
  \/ OpeningReply
  \/ DeleteMessages
  \/ \E hasText \in BOOLEAN : TtsRequest(hasText)
  \/ \E up \in Upstream : TtsUpstreamAnswers(up)
  \/ TtsReadChunk
  \/ TtsReadDone
  \/ TtsReadFails

\* The server alone: the handler of the client is not used.
InitServer ==
  /\ Constructed
  /\ recognitionSupported = FALSE
  /\ hasMediaSource = FALSE
  /\ callLimit = SoloCalls
  /\ chunkLimit = MaxChunks
  /\ finalLimit = OneFinal

SpecServer == InitServer /\ [][ServerNext]_vars

(***************************************************************************)
(* Claims                                                                  *)
(***************************************************************************)

Playing(s) == sess[s].state = "playing"
InFlight(s) == sess[s].pc \in {"fetch", "blob", "play", "ms"}
UrlsOf(s) == {u \in Urls : u.s = s /\ url[u].made}

\* C1: for every sequence of speak() calls, overlapping ones included, at
\* most one playback session is playing at any time, and it is the session
\* whose resource the sink holds and plays.
C1_AtMostOnePlaying ==
  /\ Cardinality({s \in Sessions : Playing(s)}) <= 1
  /\ \A s \in Sessions : Playing(s) => audioSrc.s = s /\ audioState = "playing"

\* C1 witness: two calls overlapped in the network wait, the older one
\* played first and lost the sink to the newer one, which plays now.
C1_Witness ==
  \E a, b \in Sessions :
    a < b /\ sess[a].state = "superseded" /\ Playing(b)

\* C2: in conversation mode the listening flag and the speaking flag are
\* never both true.
C2_NeverListeningWhileSpeaking ==
  conversationMode => ~(isListening /\ isSpeaking)

\* C3: when speak(B) is issued while the session of speak(A) is playing, A's
\* object URL has been revoked exactly once by the time B's playback begins.
C3_ReleasedOnceBeforeNext ==
  \A a, b \in Sessions :
    (a < b /\ sess[a].outcome = "resolved" /\ sess[a].state = "preempted"
       /\ Playing(b))
      => \A u \in UrlsOf(a) : url[u].revokes = 1

\* C4: once the first appendBuffer of a streamed call has thrown and the
\* stream has nothing left to deliver, the call has fallen back to the
\* direct-blob strategy on the same response and its audio plays or played,
\* with one request sent.
C4_FallbackAfterAppendFailure ==
  \A s \in Sessions :
    (ms[s].firstAppendThrew /\ ~ms[s].reading /\ ~ms[s].timer /\ ~ms[s].updating)
      => /\ sess[s].strategy = "blob"
         /\ sess[s].state \in {"playing", "ended"}
         /\ sess[s].fetches = 1

\* C5: with conversation mode enabled and no manual mic action, every final
\* transcript of the recogniser is submitted to the caller.
C5_EveryFinalSubmitted ==
  (~manualMic) => submissions = finals

\* C6: a session that was in flight when stopSpeaking() was called never
\* starts playback afterwards and never puts its resource on the sink.
C6_SupersededInert ==
  [][\A s \in Sessions :
       sess[s].state = "cancelled"
         => /\ sess'[s].state # "playing"
            /\ (audioSrc' # audioSrc => audioSrc'.s # s)]_vars

\* C7: once a newer speak() call has begun, an older call still in flight
\* does not assign the sink's src.
C7_NoSinkMutationByOlderCall ==
  [][\A a \in Sessions :
       (InFlight(a) /\ calls > a)
         => (audioSrc' # audioSrc => audioSrc'.s # a)]_vars

\* C8: a speak() call whose play() was refused by the autoplay policy
\* rejects with that NotAllowedError.
C8_BlockedIsReported ==
  \A s \in Sessions :
    (sess[s].blocked /\ sess[s].pc = "settled")
      => sess[s].outcome = "NotAllowedError"

\* C9: a session blocked by the autoplay policy is not lost: when the
\* blocked flag is clear again the session is still held for its retry, or
\* it plays or has played.
C9_BlockedSessionResumed ==
  \A s \in Sessions :
    (sess[s].blocked /\ ~autoplayBlocked)
      => \/ sess[s].pc # "settled"
         \/ sess[s].state \in {"playing", "ended"}

\* C10: getIsSpeaking() is true exactly in the states where a playback
\* session is playing.
C10_SpeakingIffPlaying ==
  isSpeaking <=> (\E s \in Sessions : Playing(s))

\* C11: stopSpeaking() called in any state leaves isSpeaking false, a second
\* call right after the first changes nothing, and called while a session
\* is playing it leaves the sink paused and no session playing.
C11_StopSpeakingStops ==
  LET M1 == StopSpeakingEffect(Cur, "stopped")
      M2 == StopSpeakingEffect(M1, "stopped")
  IN /\ M1.sp = FALSE
     /\ M2 = M1
     /\ (\E s \in Sessions : Playing(s))
          => /\ M1.ast = "paused"
             /\ \A s \in Sessions : M1.sess[s].state # "playing"

\* No callback of session s that could still revoke the handle u is left.
NoHandlerLeft(s, u) ==
  /\ audioOnended # u
  /\ sess[s].plays = << >>
  /\ u.k = "ms" => ~(ms[s].timer \/ ms[s].reading \/ ms[s].updating)

\* C12: a session that exited with an error has had every object URL it
\* created revoked once none of its callbacks remains to do so.
C12_HandleReleasedOnExit ==
  \A s \in Sessions : \A u \in UrlsOf(s) :
    (sess[s].pc = "settled" /\ sess[s].outcome # "resolved" /\ NoHandlerLeft(s, u))
      => url[u].revokes >= 1

\* A step in which a resumed startListening() of this kind reaches line 192.
ReachesStart(kind) == PermissionResolved(kind, TRUE) /\ ~isSpeaking

\* A step in which such a call starts the recogniser.
StartsRecogniser(kind) ==
  ReachesStart(kind) /\ rec = "inactive" /\ rec' = "starting"

\* C13: no startListening() call invokes start() on a recogniser that is
\* started or starting, and none reports an error for being a duplicate.
C13_DuplicateStartIgnored ==
  [][\A kind \in StartKinds :
       ReachesStart(kind) => (~StartThrows) /\ onErrorCalled' = onErrorCalled]_vars

\* C14: the caller's onResult runs once for each final result that arrives
\* while its handler is installed, and for nothing else: no step changes the
\* number of submissions except together with one final result.
C14_OneSubmissionPerFinal ==
  [][/\ submissions' # submissions
          => /\ submissions' = submissions + 1
             /\ finals' = finals + 1
             /\ onresult = "callback"
     /\ (finals' # finals /\ onresult = "callback")
          => submissions' = submissions + 1]_vars

\* C14 witness: every final result of the run arrived and was submitted once.
C14_Witness ==
  onresult = "callback" /\ finals = finalLimit /\ submissions = finals

\* C15: while conversation mode is disabled and the mic button was never
\* used, no step starts the recogniser and none brings it to listening.
C15_DisabledStaysStopped ==
  [][((~conversationMode) /\ (~conversationMode') /\ ~manualMic)
       => /\ ~(rec # "starting" /\ rec' = "starting")
          /\ ~(rec # "active" /\ rec' = "active")]_vars

\* C16: setConversationMode(false) changes neither isSpeaking, nor the sink,
\* nor any speak() call.
C16_DisableLeavesSpeech ==
  [][SetConversationMode(FALSE)
       => UNCHANGED << isSpeaking, autoplayBlocked, audioSrc, audioState,
                       playEventQueued, audioOnended, url, calls, sess, ms >>]_vars

\* C16 witness: conversation mode is off again, a restart timer from the time
\* it was on is still pending, and the session of a speak() call plays.
C16_Witness ==
  /\ ~conversationMode
  /\ restartTimers > 0
  /\ isSpeaking
  /\ \E s \in Sessions : Playing(s) /\ sess[s].outcome = "resolved"

\* C17: the playback ended event calls startListening() exactly when
\* conversation mode is enabled at that moment.
C17_RearmIffConversationMode ==
  [][(AudioEnded /\ recognitionSupported)
       => (conversationMode <=> NumStarts' > NumStarts)]_vars

\* C17 witness: playback ended in conversation mode and the two
\* startListening() calls of its ended handlers wait in the permission test.
C17_Witness ==
  /\ conversationMode
  /\ ~isSpeaking
  /\ rec = "inactive"
  /\ pendingStarts.plain = 2
  /\ \E s \in Sessions : sess[s].state = "ended"

\* C18: a restart timer's startListening() starts the recogniser only with
\* conversation mode enabled and no session playing at that moment.
C18_RestartCheckedAtStart ==
  [][StartsRecogniser("timer")
       => conversationMode /\ ~(\E s \in Sessions : Playing(s))]_vars

\* C19: in conversation mode a restart timer's startListening() never
\* starts the recogniser while a speak() call is requested or playing.
C19_NoTimerRestartDuringSpeech ==
  [][(StartsRecogniser("timer") /\ conversationMode)
       => ~(\E s \in Sessions : sess[s].state \in {"requested", "playing"})]_vars

\* C20: a no-speech error schedules a restart exactly when conversation
\* mode is enabled and the handler is not speaking, as an end event does,
\* and no recogniser error reaches the caller's onError.
C20_NoSpeechLikeEnd ==
  [][/\ (RecOnError("no-speech") \/ RecOnEnd)
          => /\ (conversationMode /\ ~isSpeaking) => restartTimers' = restartTimers + 1
             /\ ~(conversationMode /\ ~isSpeaking) => restartTimers' = restartTimers
     /\ (\E kind \in ErrorKinds : RecOnError(kind))
          => onErrorCalled' = onErrorCalled]_vars

\* C20 witness: with the mic button's callbacks installed and conversation
\* mode enabled, the recogniser failed, a restart is scheduled and onError
\* was not called.
C20_Witness ==
  /\ onresult = "callback"
  /\ conversationMode
  /\ rec = "stopping"
  /\ ~isListening
  /\ restartTimers = 1
  /\ ~onErrorCalled

\* C21: outside conversation mode, once a final transcript was submitted and
\* the recogniser has been stopped, no further submission follows from that
\* listen request.
C21_SingleShot ==
  [][((~conversationMode) /\ (~conversationMode')
        /\ submissions >= 1 /\ rec = "stopping")
       => submissions' = submissions]_vars

\* C22: a non-success answer whose error field carries the quota marker
\* makes speak() reject with the quota-exceeded outcome, and so does every
\* answer the relay builds when the voice service reports quota_exceeded.
C22_QuotaReported ==
  [][\A s \in Sessions :
       /\ \A a \in Answers :
            ((~a.ok) /\ (\E i \in DOMAIN a.error : a.error[i] = QuotaMarker)
               /\ FetchResolved(s, ResponseClass(a)))
              => sess'[s].outcome = "QuotaExceeded"
       /\ \A up \in {"quota_status", "quota_text"} :
            FetchResolved(s, ResponseClass(RelayAnswer(up)))
              => sess'[s].outcome = "QuotaExceeded"]_vars

\* C22 witness: a call was rejected with the quota-exceeded outcome.
C22_Witness ==
  \E s \in Sessions :
    sess[s].pc = "settled" /\ sess[s].outcome = "QuotaExceeded"

\* C23: a non-success answer with no decodable error payload makes speak()
\* reject with the synthesis-unavailable outcome, touches neither the sink
\* nor a playback strategy, and leaves isSpeaking false.
C23_UnavailableReported ==
  [][\A s \in Sessions : \A a \in {Undecodable, NoErrorField} :
       FetchResolved(s, ResponseClass(a))
         => /\ sess'[s].outcome = "SynthesisUnavailable"
            /\ sess'[s].strategy = "none"
            /\ ~isSpeaking'
            /\ UNCHANGED << audioSrc, audioState, playEventQueued,
                            audioOnended, url, ms >>]_vars

\* C23 witness: the call was rejected as unavailable before any strategy.
C23_Witness ==
  \E s \in Sessions :
    /\ sess[s].outcome = "SynthesisUnavailable"
    /\ sess[s].strategy = "none"
    /\ url[BlobUrl(s)].made = FALSE /\ url[MsUrl(s)].made = FALSE
    /\ ~isSpeaking

\* C24: a call whose text is shorter than 100 characters, or made without
\* MediaSource, plays by direct-blob and never sets up a MediaSource, on
\* error paths too; any other call sets up the MediaSource first.
C24_StrategyChoice ==
  \A s \in Sessions :
    sess[s].strategy # "none"
      => IF sess[s].len < ShortTextThreshold \/ ~hasMediaSource
           THEN /\ sess[s].strategy = "blob"
                /\ ms[s] = NoMs
                /\ ~url[MsUrl(s)].made
           ELSE url[MsUrl(s)].made

\* C24 witness: a short text with MediaSource available went through the
\* error path of the direct-blob strategy, and a text of exactly 100
\* characters was given to the MediaSource strategy.
C24_Witness ==
  /\ hasMediaSource
  /\ \E s \in Sessions :
       /\ sess[s].len = ShortTextThreshold - 1
       /\ sess[s].fellBack
       /\ sess[s].pc = "settled"
  /\ \E s \in Sessions :
       sess[s].len = ShortTextThreshold /\ sess[s].strategy = "ms"

\* C25: every speak() call that was made has sent one request to the
\* synthesis endpoint, whatever strategy or fallback it went through.
C25_OneRequestPerCall ==
  \A s \in Sessions : sess[s].pc # "idle" => sess[s].fetches = 1

\* C25 witness: the MediaSource strategy failed, the call fell back to
\* direct-blob on the same response and its audio plays.
C25_Witness ==
  \E s \in Sessions :
    /\ sess[s].fellBack
    /\ sess[s].strategy = "blob"
    /\ Playing(s)
    /\ sess[s].fetches = 1

\* C26: without a recogniser nothing is ever started or left pending and
\* the mic button's call reports an error; a startListening() whose
\* permission test is refused changes nothing of the recogniser and reports
\* an error to the caller that gave a callback.
C26_RefusedStartDoesNothing ==
  [][/\ (~recognitionSupported)
          => /\ rec' = "inactive" /\ ~isListening' /\ NumStarts' = 0
             /\ ManualStartListening => onErrorCalled'
     /\ \A kind \in StartKinds :
          PermissionResolved(kind, FALSE)
            => /\ UNCHANGED << rec, isListening, onresult, restartTimers >>
               /\ kind = "cb" => onErrorCalled']_vars

\* C26 witness: the mic button's call was refused the microphone: an error
\* was reported, the handler was not installed, the recogniser is inactive.
C26_Witness ==
  /\ recognitionSupported
  /\ manualMic
  /\ onErrorCalled
  /\ ~conversationMode
  /\ NumStarts = 0
  /\ onresult = "default"
  /\ rec = "inactive" /\ ~isListening

\* C27: stopListening() called twice has the effect of one call, and called
\* without a recogniser, or on one that is inactive or already stopping, it
\* changes nothing.
C27_StopListeningIdempotent ==
  LET r1 == StopListeningRec(rec, isListening)
      r2 == StopListeningRec(r1, isListening)
  IN /\ r2 = r1
     /\ ((~recognitionSupported) \/ rec \in {"inactive", "stopping"}) => r1 = rec

\* C27 witness: stopListening() was called on a listening recogniser whose
\* end event has not fired yet; the next call is the repeated one.
C27_Witness ==
  manualMic /\ rec = "stopping" /\ isListening /\ ~conversationMode /\ finals = 0

\* C28: ensureAudioPermission() clears the blocked flag exactly when the
\* flag is set and the silent play succeeds, changes nothing else, and
\* resolves to false exactly when the flag is set and that play is rejected.
C28_EnsureAudioPermission ==
  /\ [](\A unlocked \in BOOLEAN :
          EnsureAudioPermissionResult(autoplayBlocked, unlocked)
            = IF autoplayBlocked THEN unlocked ELSE TRUE)
  /\ [][\A unlocked \in BOOLEAN :
          EnsureAudioPermission(unlocked)
            => /\ autoplayBlocked' = (autoplayBlocked /\ ~unlocked)
               /\ UNCHANGED << isSpeaking, recVars, sinkVars, callVars, obsVars >>]_vars

\* C28 witness: the one call of the run was refused by the autoplay policy
\* on the direct-blob strategy and the flag is clear again.
C28_Witness ==
  \E s \in Sessions :
    /\ sess[s].blocked
    /\ sess[s].strategy = "blob"
    /\ sess[s].plays = << >>
    /\ ms[s].settled # "resolved"
    /\ ~autoplayBlocked

\* C29: a play() refused with NotAllowedError, in any state and for either
\* strategy, sets the blocked flag and notifies; and the flag is cleared
\* only by a play() promise that resolves or by a successful
\* ensureAudioPermission().
C29_BlockedFlagLifetime ==
  /\ [](\A s \in Sessions : \A origin \in {"blob", "ms"} :
          LET M == CallPlay(Cur, s, origin, FALSE)
          IN M.ab /\ M.sess[s].blocked)
  /\ [][(autoplayBlocked /\ ~autoplayBlocked')
          => \/ EnsureAudioPermission(TRUE)
             \/ \E s \in Sessions :
                  PlaySettles(s) /\ Head(sess[s].plays)[2] = "ok"]_vars

\* C29 witness: one call's play() was refused, a later call failed in the
\* network, and the flag is still set.
C29_Witness ==
  /\ autoplayBlocked
  /\ \E a, b \in Sessions :
       /\ a < b
       /\ sess[a].blocked /\ sess[a].pc = "settled"
       /\ sess[b].pc = "settled" /\ sess[b].outcome = "NetworkError"

\* C30: the chunks given to appendBuffer are in arrival order without
\* repetition; while the source buffer is valid and the MediaSource open
\* every chunk read so far is appended or queued, in order; and a stream
\* ended with a valid source buffer has had every chunk read appended.
C30_AppendOrder ==
  \A s \in Sessions :
    LET m == ms[s] IN
    /\ \A i, j \in DOMAIN m.appended : i < j => m.appended[i] < m.appended[j]
    /\ (m.valid /\ m.open) => m.appended \o m.pending = [i \in 1..m.read |-> i]
    /\ (m.valid /\ m.ready = "ended") => m.appended = [i \in 1..m.read |-> i]

\* C30 witness: all chunks of the body were appended and the stream ended.
C30_Witness ==
  \E s \in Sessions :
    /\ ms[s].appended = [i \in 1..MaxChunks |-> i]
    /\ ms[s].complete
    /\ ms[s].ready = "ended"

\* C31: appendBuffer is never invoked while the source buffer is updating:
\* processNextChunk() called in a state where an append is pending leaves
\* the buffer and the queue as they are; a step appends at most one chunk
\* and the buffer is updating after it; and the arrival of a chunk appends
\* only when no append is pending.
C31_OneAppendPending ==
  /\ [](\A s \in Sessions : \A throws \in BOOLEAN :
          ms[s].updating => ProcessNextChunk(ms[s], throws) = ms[s])
  /\ [][\A s \in Sessions :
          Len(ms'[s].appended) > Len(ms[s].appended)
            => /\ Len(ms'[s].appended) = Len(ms[s].appended) + 1
               /\ ms'[s].updating
               /\ ms'[s].read > ms[s].read => ~ms[s].updating]_vars

\* C31 witness: a chunk arrived while the previous append was pending and
\* waits in the queue.
C31_Witness ==
  \E s \in Sessions :
    /\ ms[s].updating
    /\ ms[s].valid /\ ms[s].open
    /\ ms[s].pending # << >>

\* C32: in the chunked-stream strategy play() is never requested before a
\* chunk was appended, and it is requested when the append of the first
\* chunk finishes, whatever has arrived of the response by then.
C32_PlayAfterFirstAppend ==
  [][\A s \in Sessions :
       LET requested == \/ Len(sess'[s].plays) > Len(sess[s].plays)
                        \/ sess'[s].blocked /\ ~sess[s].blocked
       IN /\ (sess[s].pc = "ms" /\ requested) => ms[s].appended # << >>
          /\ ( /\ \E throws, allowed \in BOOLEAN : MsUpdateEnd(s, throws, allowed)
               /\ sess[s].pc = "ms"
               /\ ms[s].valid /\ ms[s].open
               /\ Len(ms[s].appended) = 1
               /\ sess[s].plays = << >> )
             => requested]_vars

\* C33: when the timer fires on a MediaSource that has not opened, the
\* chunked-stream attempt is rejected and the call goes on with the
\* direct-blob strategy on the same response, which is still unread, without
\* another request; and a call that is waiting for the open signal always
\* has the timer pending.
C33_OpenTimeoutFallsBack ==
  /\ [](\A s \in Sessions :
          (sess[s].pc = "ms" /\ ms[s].ready = "new" /\ ms[s].settled = "no")
            => ms[s].timer)
  /\ [][\A s \in Sessions :
          (sess[s].pc = "ms" /\ ms[s].ready = "new" /\ ms[s].timer /\ ~ms'[s].timer)
            => /\ ms'[s].settled = "rejected"
               /\ sess'[s].pc = "blob"
               /\ sess'[s].strategy = "blob"
               /\ ~sess[s].bodyUsed
               /\ sess'[s].fetches = sess[s].fetches
               /\ url'[MsUrl(s)].revokes = 1]_vars

\* C33 witness: the MediaSource never opened, the timer fired and the call
\* reads the response as a blob.
C33_Witness ==
  \E s \in Sessions :
    /\ ms[s].ready = "new"
    /\ ~ms[s].timer
    /\ ms[s].settled = "rejected"
    /\ sess[s].fellBack
    /\ sess[s].pc = "blob"
    /\ sess[s].fetches = 1

\* C34: once playback has started no recogniser is running: while a session
\* plays, the recogniser is not active.
C34_NoRecogniserDuringPlayback ==
  \A s \in Sessions : Playing(s) => rec # "active"

\* C35: a speak() call that has not settled always has a callback pending
\* that can settle it or move it on: the open signal or its timer, a read of
\* the body, an updateend, or a play() promise.
C35_EverySpeakSettles ==
  \A s \in Sessions :
    /\ sess[s].pc = "ms"
         => \/ ms[s].ready = "new"
            \/ ms[s].reading
            \/ ms[s].updating
            \/ sess[s].plays # << >>
    /\ sess[s].pc = "play" => sess[s].plays # << >>

\* C36: with conversation mode enabled the loop is never left dead after a
\* speaking turn: once the recogniser has heard the user, a turn is over and
\* nothing of it is in flight, the recogniser is running or ending, or a
\* startListening() call or a restart timer is pending.
C36_LoopNeverStalls ==
  ( /\ conversationMode
    /\ recognitionSupported
    /\ finals >= 1
    /\ calls >= 1
    /\ ~isSpeaking
    /\ \A s \in Sessions : (~InFlight(s)) /\ (~Playing(s)) /\ sess[s].plays = << >>
    /\ audioState # "playing"
    /\ ~playEventQueued )
  => \/ rec # "inactive"
     \/ NumStarts > 0
     \/ restartTimers > 0

\* C37: a step in which an older speak() call rejects leaves the speaking
\* flag set when a newer call is playing or still on its way to play.
C37_OlderFailureKeepsFlag ==
  [][\A a, b \in Sessions :
       ( /\ a < b
         /\ sess[a].pc # "settled"
         /\ sess'[a].pc = "settled"
         /\ sess'[a].outcome # "resolved"
         /\ sess[b].state \in {"requested", "playing"}
         /\ isSpeaking )
       => isSpeaking']_vars

\* C38: a chunked-stream session never has more than one play() request of
\* its own pending on the sink.
C38_OnePlayPerStream ==
  \A s \in Sessions :
    Cardinality({i \in DOMAIN sess[s].plays : sess[s].plays[i][1] = "ms"}) <= 1

\* C39: the history handed to the completion relay for a posted user
\* message holds every message the store listed exactly once, the posted
\* message among them; and the reply is the one entry the request then
\* appends to the store.
C39_HistoryOnceEach ==
  /\ [](\A r \in Posts :
          posts[r].pc \in {"relay", "done", "failed"} /\ posts[r].history # << >>
            => LET h == posts[r].history
                   Count(e) == Cardinality({i \in DOMAIN h : h[i] = e})
               IN /\ h[1] = SystemEntry
                  /\ \A i \in DOMAIN posts[r].listed : Count(posts[r].listed[i]) = 1
                  /\ Count(PostedEntry(r, "user")) = 1)
  /\ [][\A r \in Posts :
          (posts[r].pc = "relay" /\ posts'[r].pc = "done")
            => store' = Append(store, ReplyEntry(r))]_vars

\* C40: the relay never calls res.status().json() after res.write(); a
\* closed request was ended and answered either with an error as JSON and
\* no audio byte, or with audio and no JSON; and the chunks written are the
\* chunks read from the voice service, in order.
C40_OneKindOfResponse ==
  /\ ~tts.lateError
  /\ tts.written = [i \in 1..tts.upRead |-> i]
  /\ tts.pc = "closed"
       => /\ tts.ended
          /\ \/ tts.status = "error" /\ tts.answer.json /\ tts.written = << >>
             \/ tts.status = "ok" /\ tts.answer = NoAnswer /\ tts.audio

====
